---- MODULE Spec2Model ----
(***************************************************************************)
(* Model of tools/generate_test_data.py: the deterministic generator of a  *)
(* tree of folders and empty files under ROOT_FOLDER.                      *)
(*                                                                         *)
(* The filesystem is a set of entries [path, kind]; a path is the sequence *)
(* of names below ROOT_FOLDER, so ROOT_FOLDER itself is the empty path.    *)
(* The module-level script is one sequential process whose position is pc. *)
(* FOLDER_RATIO is held in tenths (0.4 is 4), the product TOTAL_ITEMS *    *)
(* FOLDER_RATIO is exact, and int() truncates it.                          *)
(***************************************************************************)
EXTENDS Integers, Sequences, FiniteSets, TLC

VARIABLES
  TOTAL_ITEMS,      \* line 13
  MAX_DEPTH,        \* line 14
  FOLDER_RATIO,     \* line 15, in tenths
  RANDOM_SEED,      \* line 17
  NAMES_LIST,       \* line 19
  fs,               \* the filesystem at and below ROOT_FOLDER
  rng,              \* state of the global random generator
  pc,               \* position of the script
  num_folders,      \* line 29
  num_files,        \* line 30
  folder_list,      \* line 33: sequence of <<folder_path, depth>>
  created_folders,  \* line 47
  created_files,    \* line 63
  directory,        \* get_unique_name: argument of the last call
  base_name,        \* get_unique_name: argument of the last call
  name,             \* get_unique_name: value returned by the last call
  err,              \* the exception raised by the last statement, "" if none
  out,              \* the distinct lines printed to standard output
  run,              \* which execution of the script this is
  prev              \* what the previous execution left behind

vars == <<TOTAL_ITEMS, MAX_DEPTH, FOLDER_RATIO, RANDOM_SEED, NAMES_LIST, fs, rng,
          pc, num_folders, num_files, folder_list, created_folders,
          created_files, directory, base_name, name, err, out, run, prev>>

config == <<TOTAL_ITEMS, MAX_DEPTH, FOLDER_RATIO, RANDOM_SEED, NAMES_LIST>>

locals == <<directory, base_name, name>>

(***************************************************************************)
(* Bounds of the model.                                                    *)
(***************************************************************************)
MaxItems == 3

MaxDepth == 3

MaxSeed == 3

MaxRuns == 2

\* Values of FOLDER_RATIO explored, in tenths: 0.0, 0.4 (the script's), 1.0.
Ratios == {0, 4, 10}

\* Name pools explored: empty, two plain names, and a pool that already holds
\* a name of the shape get_unique_name produces.
Pools == { <<>>, <<"a", "b">>, <<"a", "a (1)">> }

(***************************************************************************)
(* Paths and the filesystem (os.path, os, shutil).                         *)
(***************************************************************************)
ROOT_FOLDER == <<>>

\* os.path.join(directory, name)
Join(dir, n) == Append(dir, n)

Entry(p, k) == [path |-> p, kind |-> k]

\* os.path.exists(path)
Exists(f, p) == \E e \in f : e.path = p

IsDir(f, p) == Entry(p, "dir") \in f

\* Is path p at or below path q?
Under(p, q) == Len(p) >= Len(q) /\ SubSeq(p, 1, Len(q)) = q

\* Roots the script may find when it starts: absent; an old tree with a
\* folder and files; a regular file standing where the root should be.
InitialRoots ==
  { {},
    { Entry(ROOT_FOLDER, "dir"), Entry(<<"a">>, "dir"), Entry(<<"a", "b">>, "file"),
      Entry(<<"z">>, "file") },
    { Entry(ROOT_FOLDER, "file") } }

\* shutil.rmtree(path): raises on a path that is not a directory.
Rmtree(f, p) ==
  IF IsDir(f, p)
    THEN [raised |-> FALSE, fs |-> {e \in f : ~Under(e.path, p)}]
    ELSE [raised |-> TRUE, fs |-> f]

\* os.makedirs(path, exist_ok=True) on a path whose parent exists; env_ok is
\* whether the operating system lets the creation through.
Makedirs(f, p, env_ok) ==
  IF Exists(f, p)
    THEN [raised |-> ~IsDir(f, p), fs |-> f]
    ELSE IF env_ok
      THEN [raised |-> FALSE, fs |-> f \cup {Entry(p, "dir")}]
      ELSE [raised |-> TRUE, fs |-> f]

\* with open(path, 'w') as f: f.write("")
OpenWrite(f, p, env_ok) ==
  IF Exists(f, p)
    THEN [raised |-> IsDir(f, p) \/ ~env_ok, fs |-> f]
    ELSE IF env_ok
      THEN [raised |-> FALSE, fs |-> f \cup {Entry(p, "file")}]
      ELSE [raised |-> TRUE, fs |-> f]

(***************************************************************************)
(* The random generator (module random): a deterministic state machine     *)
(* that random.seed sets and every random.choice advances.                 *)
(***************************************************************************)
RngMod == 31

RngMul == 3

\* random.seed(RANDOM_SEED)
SeedState(s) == (s % (RngMod - 1)) + 1

Advance(r) == (r * RngMul) % RngMod

\* random.choice(seq) raises IndexError on an empty sequence.
ChoiceRaises(seq) == Len(seq) = 0

\* random.choice(seq), drawn in generator state r.
Choice(r, seq) == seq[(r % Len(seq)) + 1]

(***************************************************************************)
(* get_unique_name, lines 35-44.                                           *)
(***************************************************************************)
\* f"{base_name} ({counter})"
FormatName(base, counter) == base \o " (" \o ToString(counter) \o ")"

\* The while True loop, entered with the candidate n and the counter.
RECURSIVE UniqueLoop(_, _, _, _, _)
UniqueLoop(f, dir, base, n, counter) ==
  IF ~Exists(f, Join(dir, n))
    THEN n
    ELSE UniqueLoop(f, dir, base, FormatName(base, counter), counter + 1)

get_unique_name_from_zero(f, dir, base) == UniqueLoop(f, dir, base, base, 0)

get_unique_name_one_try(f, dir, base) ==
  IF ~Exists(f, Join(dir, base)) THEN base ELSE FormatName(base, 1)

get_unique_name(f, dir, base) == UniqueLoop(f, dir, base, base, 1)

(***************************************************************************)
(* Helpers of the two loops.                                               *)
(***************************************************************************)
\* int(TOTAL_ITEMS * FOLDER_RATIO), line 29
NumFoldersCeil(total, ratio) == (total * ratio + 9) \div 10

NumFolders(total, ratio) == (total * ratio) \div 10

\* [f for f in folder_list if f[1] < MAX_DEPTH - 1], line 49
ValidFoldersOffByOne(fl, max_depth) == SelectSeq(fl, LAMBDA f : f[2] < max_depth)

ValidFoldersTooStrict(fl, max_depth) == SelectSeq(fl, LAMBDA f : f[2] < max_depth - 3)

ValidFolders(fl, max_depth) == SelectSeq(fl, LAMBDA f : f[2] < max_depth - 1)

\* created_folders += 1 / created_files += 1 sit after the call that may
\* raise, lines 58 and 72.
CountAfterAlways(created, raised) == created + 1

CountAfter(created, raised) == IF raised THEN created ELSE created + 1

\* folder_list.append((new_folder, depth + 1)), line 57, after os.makedirs.
RegistryAfter(fl, new_folder, depth, raised) ==
  IF raised THEN fl ELSE Append(fl, <<new_folder, depth + 1>>)

\* Where the script goes when random.choice raises IndexError in a loop: the
\* draws of lines 51-52 and 65-66 are outside the try blocks.
OnIndexErrorSwallowed(loop) == loop

OnIndexError(loop) == "aborted"

FailedFolderLine == "Failed to create folder"

FailedFileLine == "Failed to create file"

SummaryLine == "Successfully created"

(***************************************************************************)
(* Initial states: the configuration constants of lines 13-19 drawn from   *)
(* small sets, and the filesystem the script finds.                        *)
(***************************************************************************)
NoPrev == [pc |-> "none", fs |-> {}, folder_list |-> <<>>, out |-> {}]

InitWith(items, depths, ratios, pools, seeds, roots) ==
  /\ TOTAL_ITEMS \in items
  /\ MAX_DEPTH \in depths
  /\ FOLDER_RATIO \in ratios
  /\ RANDOM_SEED \in seeds
  /\ NAMES_LIST \in pools
  /\ fs \in roots
  /\ rng = 0
  /\ pc = "start"
  /\ num_folders = 0
  /\ num_files = 0
  /\ folder_list = <<>>
  /\ created_folders = 0
  /\ created_files = 0
  /\ directory = ROOT_FOLDER
  /\ base_name = ""
  /\ name = ""
  /\ err = ""
  /\ out = {}
  /\ run = 1
  /\ prev = NoPrev

Init == InitWith(1 .. MaxItems, 1 .. MaxDepth, Ratios, Pools, 1 .. MaxSeed, InitialRoots)

(***************************************************************************)
(* The script, statement by statement.                                     *)
(***************************************************************************)
\* line 22: random.seed(RANDOM_SEED)
SeedRandom ==
  /\ pc = "start"
  /\ rng' = SeedState(RANDOM_SEED)
  /\ pc' = "reset"
  /\ UNCHANGED <<config, fs, num_folders, num_files, folder_list, created_folders,
                 created_files, locals, err, out, run, prev>>

\* lines 25-27: delete an existing root, then create it.  Neither call is
\* inside a try block, so an exception ends the script.
ResetRoot ==
  /\ pc = "reset"
  /\ \E rm_ok \in BOOLEAN, mk_ok \in BOOLEAN :
       LET rm == IF Exists(fs, ROOT_FOLDER)
                   THEN IF rm_ok THEN Rmtree(fs, ROOT_FOLDER)
                                 ELSE [raised |-> TRUE, fs |-> fs]
                   ELSE [raised |-> FALSE, fs |-> fs]
           mk == Makedirs(rm.fs, ROOT_FOLDER, mk_ok)
       IN  IF rm.raised
             THEN /\ fs' = rm.fs
                  /\ err' = "OSError"
                  /\ pc' = "aborted"
             ELSE /\ fs' = mk.fs
                  /\ err' = IF mk.raised THEN "OSError" ELSE ""
                  /\ pc' = IF mk.raised THEN "aborted" ELSE "plan"
  /\ UNCHANGED <<config, rng, num_folders, num_files, folder_list, created_folders,
                 created_files, locals, out, run, prev>>

\* lines 29-33 and 47
Plan ==
  /\ pc = "plan"
  /\ num_folders' = NumFolders(TOTAL_ITEMS, FOLDER_RATIO)
  /\ num_files' = TOTAL_ITEMS - NumFolders(TOTAL_ITEMS, FOLDER_RATIO)
  /\ folder_list' = << <<ROOT_FOLDER, 0>> >>
  /\ created_folders' = 0
  /\ pc' = "folders"
  /\ UNCHANGED <<config, fs, rng, created_files, locals, err, out, run, prev>>

\* lines 48-60: one iteration of the folder loop.
CreateFolder ==
  /\ pc = "folders"
  /\ created_folders < num_folders
  /\ \E env_ok \in BOOLEAN :
       LET valid_folders == ValidFolders(folder_list, MAX_DEPTH)
           r1 == Advance(rng)
           parent == Choice(r1, valid_folders)
           r2 == Advance(r1)
           base == Choice(r2, NAMES_LIST)
           folder_name == get_unique_name(fs, parent[1], base)
           new_folder == Join(parent[1], folder_name)
           res == Makedirs(fs, new_folder, env_ok)
       IN  IF ChoiceRaises(valid_folders) \/ ChoiceRaises(NAMES_LIST)
             THEN /\ rng' = IF ChoiceRaises(valid_folders) THEN rng ELSE r1
                  /\ err' = "IndexError"
                  /\ pc' = OnIndexError("folders")
                  /\ UNCHANGED <<fs, folder_list, created_folders, locals, out>>
             ELSE /\ rng' = r2
                  /\ directory' = parent[1]
                  /\ base_name' = base
                  /\ name' = folder_name
                  /\ fs' = res.fs
                  /\ folder_list' = RegistryAfter(folder_list, new_folder, parent[2], res.raised)
                  /\ created_folders' = CountAfter(created_folders, res.raised)
                  /\ err' = IF res.raised THEN "OSError" ELSE ""
                  /\ out' = IF res.raised THEN out \cup {FailedFolderLine} ELSE out
                  /\ pc' = "folders"
  /\ UNCHANGED <<config, num_folders, num_files, created_files, run, prev>>

\* line 48 false, then line 63
BeginFiles ==
  /\ pc = "folders"
  /\ ~(created_folders < num_folders)
  /\ created_files' = 0
  /\ pc' = "files"
  /\ UNCHANGED <<config, fs, rng, num_folders, num_files, folder_list,
                 created_folders, locals, err, out, run, prev>>

\* lines 64-74: one iteration of the file loop.
CreateFile ==
  /\ pc = "files"
  /\ created_files < num_files
  /\ \E env_ok \in BOOLEAN :
       LET r1 == Advance(rng)
           target == Choice(r1, folder_list)
           r2 == Advance(r1)
           base == Choice(r2, NAMES_LIST)
           file_name == get_unique_name(fs, target[1], base)
           file_path == Join(target[1], file_name)
           res == OpenWrite(fs, file_path, env_ok)
       IN  IF ChoiceRaises(folder_list) \/ ChoiceRaises(NAMES_LIST)
             THEN /\ rng' = IF ChoiceRaises(folder_list) THEN rng ELSE r1
                  /\ err' = "IndexError"
                  /\ pc' = OnIndexError("files")
                  /\ UNCHANGED <<fs, created_files, locals, out>>
             ELSE /\ rng' = r2
                  /\ directory' = target[1]
                  /\ base_name' = base
                  /\ name' = file_name
                  /\ fs' = res.fs
                  /\ created_files' = CountAfter(created_files, res.raised)
                  /\ err' = IF res.raised THEN "OSError" ELSE ""
                  /\ out' = IF res.raised THEN out \cup {FailedFileLine} ELSE out
                  /\ pc' = "files"
  /\ UNCHANGED <<config, num_folders, num_files, folder_list, created_folders, run, prev>>

\* line 64 false, then line 76
Summary ==
  /\ pc = "files"
  /\ ~(created_files < num_files)
  /\ out' = out \cup {SummaryLine}
  /\ pc' = "done"
  /\ UNCHANGED <<config, fs, rng, num_folders, num_files, folder_list,
                 created_folders, created_files, locals, err, run, prev>>

Script == SeedRandom \/ ResetRoot \/ Plan \/ CreateFolder \/ BeginFiles \/ CreateFile \/ Summary

Next == Script

Spec == Init /\ [][Next]_vars

\* The script keeps executing its statements until it ends or aborts.  The
\* runs whose progress is checked start with one seed, from an absent root.
LiveInit == InitWith(1 .. MaxItems, 1 .. MaxDepth, Ratios, Pools, {1}, {{}})

LiveSpec == LiveInit /\ [][Next]_vars /\ WF_vars(Script)

\* An iteration of a loop whose creation call went through.
FolderCreated == CreateFolder /\ created_folders' = created_folders + 1

FileCreated == CreateFile /\ created_files' = created_files + 1

(***************************************************************************)
(* Running the script again against the root a completed run left behind  *)
(* (docstring, lines 2-4): a fresh process, the same constants, the        *)
(* filesystem as it is.                                                    *)
(***************************************************************************)
Rerun ==
  /\ pc = "done"
  /\ run < MaxRuns
  /\ run' = run + 1
  /\ prev' = [pc |-> pc, fs |-> fs, folder_list |-> folder_list, out |-> out]
  /\ pc' = "start"
  /\ rng' = 0
  /\ num_folders' = 0
  /\ num_files' = 0
  /\ folder_list' = <<>>
  /\ created_folders' = 0
  /\ created_files' = 0
  /\ directory' = ROOT_FOLDER
  /\ base_name' = ""
  /\ name' = ""
  /\ err' = ""
  /\ out' = {}
  /\ UNCHANGED <<config, fs>>

RerunInit == InitWith({2, 3}, {2}, {4, 10}, {<<"a", "b">>}, 1 .. MaxSeed, InitialRoots)

RerunNext == Script \/ Rerun

RerunSpec == RerunInit /\ [][RerunNext]_vars

(***************************************************************************)
(* get_unique_name on its own: every directory snapshot over a small set   *)
(* of names, each absent, a file or a folder, and every base name.         *)
(***************************************************************************)
UniqueNames == {"a", "a (1)", "a (2)", "a (1) (1)", "b"}

UniqueBases == {"a", "a (1)", "b"}

UniqueDirs == {ROOT_FOLDER, <<"d">>}

Snapshot(dir, kinds) ==
  {Entry(ROOT_FOLDER, "dir"), Entry(<<"d">>, "dir")}
    \cup {Entry(Join(dir, n), kinds[n]) : n \in {m \in UniqueNames : kinds[m] # "absent"}}

UniqueInit ==
  /\ TOTAL_ITEMS = 1
  /\ MAX_DEPTH = 2
  /\ FOLDER_RATIO = 0
  /\ RANDOM_SEED = 1
  /\ NAMES_LIST = <<>>
  /\ directory \in UniqueDirs
  /\ base_name \in UniqueBases
  /\ \E kinds \in [UniqueNames -> {"absent", "file", "dir"}] :
       fs = Snapshot(directory, kinds)
  /\ name = ""
  /\ pc = "call"
  /\ rng = 0
  /\ num_folders = 0
  /\ num_files = 0
  /\ folder_list = <<>>
  /\ created_folders = 0
  /\ created_files = 0
  /\ err = ""
  /\ out = {}
  /\ run = 1
  /\ prev = NoPrev

\* lines 35-44, called on the snapshot
UniqueCall ==
  /\ pc = "call"
  /\ name' = get_unique_name(fs, directory, base_name)
  /\ pc' = "returned"
  /\ UNCHANGED <<config, fs, rng, num_folders, num_files, folder_list, created_folders,
                 created_files, directory, base_name, err, out, run, prev>>

UniqueNext == UniqueCall

UniqueSpec == UniqueInit /\ [][UniqueNext]_vars

(***************************************************************************)
(* Properties.                                                             *)
(***************************************************************************)
\* Folders below the root and regular files in filesystem f.
FoldersIn(f) == {e \in f : e.kind = "dir" /\ e.path # ROOT_FOLDER}

FilesIn(f) == {e \in f : e.kind = "file"}

\* C1 (count invariant): when the run has printed its summary, the folders
\* below the root number floor(TOTAL_ITEMS * FOLDER_RATIO), the files number
\* TOTAL_ITEMS minus that, and together they are TOTAL_ITEMS, whatever
\* failures came before.
C1_CountInvariant ==
  pc = "done" =>
    LET k == Cardinality(FoldersIn(fs))
        n == Cardinality(FilesIn(fs))
    IN  /\ 10 * k <= TOTAL_ITEMS * FOLDER_RATIO
        /\ TOTAL_ITEMS * FOLDER_RATIO < 10 * (k + 1)
        /\ n = TOTAL_ITEMS - k
        /\ k + n = TOTAL_ITEMS

\* A completed run that made folders and files and saw both kinds of failure.
C1_Witness ==
  /\ pc = "done"
  /\ Cardinality(FoldersIn(fs)) > 0
  /\ Cardinality(FilesIn(fs)) > 1
  /\ {FailedFolderLine, FailedFileLine} \subseteq out

\* C2 (depth invariant): every record of the registry has a depth below
\* MAX_DEPTH which is the depth of its path; the root is the first record,
\* and every other record sits directly under an earlier record whose depth
\* is below MAX_DEPTH - 1, one level deeper.  With MAX_DEPTH = 2 every
\* created folder is a child of the root.
C2_DepthInvariant ==
  \A i \in DOMAIN folder_list :
    LET p == folder_list[i][1]
        d == folder_list[i][2]
    IN  /\ d < MAX_DEPTH
        /\ d = Len(p)
        /\ Entry(p, "dir") \in fs
        /\ (i = 1) = (p = ROOT_FOLDER)
        /\ i > 1 =>
             \E j \in 1 .. i - 1 :
               /\ folder_list[j][1] = SubSeq(p, 1, Len(p) - 1)
               /\ folder_list[j][2] = d - 1
               /\ folder_list[j][2] < MAX_DEPTH - 1
        /\ (MAX_DEPTH = 2 /\ i > 1) => Len(p) = 1

\* A folder at the deepest level MAX_DEPTH allows, below a folder that is not
\* the root, while the folder loop still has folders to create.
C2_Witness ==
  /\ pc = "folders"
  /\ created_folders < num_folders
  /\ \E i \in DOMAIN folder_list :
       folder_list[i][2] = MAX_DEPTH - 1 /\ folder_list[i][2] >= 2

\* C3 (uniqueness invariant): no two entries of the tree have the same path,
\* and every iteration that counts a creation added exactly one entry, of the
\* kind its loop creates, at a path that did not exist before: no creation
\* lands on an existing file or folder.
C3_Unique ==
  /\ [](\A e1 \in fs, e2 \in fs : e1.path = e2.path => e1 = e2)
  /\ [][ (created_folders' = created_folders + 1 \/ created_files' = created_files + 1)
           => /\ ~(\E e \in fs : e.path = Append(directory', name'))
              /\ fs' = fs \cup {[path |-> Append(directory', name'),
                                 kind |-> IF pc = "folders" THEN "dir" ELSE "file"]}
       ]_vars

\* A file was created under a suffixed name because its base name is taken
\* by a folder of the same directory.
C3_Witness ==
  /\ pc = "files"
  /\ created_files > 0
  /\ err = ""
  /\ name # base_name
  /\ Entry(Append(directory, base_name), "dir") \in fs
  /\ Entry(Append(directory, name), "file") \in fs

\* The loop at pc still has an item to create, so its next iteration draws.
MustDraw ==
  \/ pc = "folders" /\ created_folders < num_folders
  \/ pc = "files" /\ created_files < num_files

\* C6 (empty-pool guard): with an empty name pool (TOTAL_ITEMS >= 1) the run
\* creates nothing under the root, prints no failure line and no summary,
\* the first iteration that has to draw a name ends the script with
\* IndexError, and once generation is planned the script does reach that
\* aborted state.
C6_EmptyPool ==
  /\ []((NAMES_LIST = <<>> /\ pc \in {"plan", "folders", "files", "done"})
          => /\ fs = {[path |-> ROOT_FOLDER, kind |-> "dir"]}
             /\ out = {}
             /\ err = ""
             /\ created_folders = 0
             /\ created_files = 0
             /\ pc # "done")
  /\ [][ (NAMES_LIST = <<>> /\ MustDraw)
           => (pc' = "aborted" /\ err' = "IndexError" /\ fs' = fs /\ out' = out) ]_vars
  /\ ((NAMES_LIST = <<>> /\ pc = "plan") ~> (pc = "aborted" /\ err = "IndexError"))

\* The empty pool stopped a run whose folder loop had an eligible parent.
C6_Witness ==
  /\ NAMES_LIST = <<>>
  /\ pc = "aborted"
  /\ err = "IndexError"
  /\ MAX_DEPTH >= 2
  /\ num_folders > 0
  /\ fs = {[path |-> ROOT_FOLDER, kind |-> "dir"]}

\* C7 (recoverable per-item error): an iteration whose creation call raises
\* prints the failure line of its loop, leaves both counters, the registry
\* and the tree as they were, stays in the same loop with an item still to
\* create, and has consumed its draws, so the next attempt draws afresh.
C7_Recoverable ==
  [][ (MustDraw /\ err' = "OSError")
        => /\ pc' = pc
           /\ rng' # rng
           /\ created_folders' = created_folders
           /\ created_files' = created_files
           /\ folder_list' = folder_list
           /\ fs' = fs
           /\ (IF pc = "folders" THEN FailedFolderLine ELSE FailedFileLine) \in out'
           /\ MustDraw' ]_vars

\* A file creation has just failed in a run whose folder creation failed too,
\* after items of both kinds were created.
C7_Witness ==
  /\ pc = "files"
  /\ err = "OSError"
  /\ created_folders > 0
  /\ created_files > 0
  /\ {FailedFolderLine, FailedFileLine} \subseteq out

\* C8 as claimed: with MAX_DEPTH < 2 and folders to create, the folder loop
\* is never left: it keeps spinning.
C8_Stalls ==
  (MAX_DEPTH < 2 /\ num_folders > 0 /\ NAMES_LIST # <<>>) => pc = "folders"

\* C8 (boundary MAX_DEPTH < 2), amended: with MAX_DEPTH < 2 and folders to
\* create no record is eligible, and the first iteration of the folder loop
\* ends the script with IndexError: no folder is created, no failure line is
\* printed, file generation is never reached.  With MAX_DEPTH >= 2 the root
\* stays eligible in every iteration.
C8_AbortsAtBoundary ==
  /\ []((MAX_DEPTH < 2 /\ num_folders > 0)
          => /\ pc \in {"folders", "aborted"}
             /\ \A i \in DOMAIN folder_list : ~(folder_list[i][2] < MAX_DEPTH - 1)
             /\ fs = {[path |-> ROOT_FOLDER, kind |-> "dir"]}
             /\ created_folders = 0
             /\ out = {})
  /\ [][ (MAX_DEPTH < 2 /\ num_folders > 0 /\ pc = "folders")
           => (pc' = "aborted" /\ err' = "IndexError") ]_vars
  /\ []((MAX_DEPTH >= 2 /\ pc = "folders")
          => /\ folder_list[1] = <<ROOT_FOLDER, 0>>
             /\ folder_list[1][2] < MAX_DEPTH - 1)

\* MAX_DEPTH = 1 stopped a run that had folders to create and names to give.
C8_Witness ==
  /\ MAX_DEPTH < 2
  /\ num_folders > 0
  /\ NAMES_LIST # <<>>
  /\ pc = "aborted"
  /\ err = "IndexError"

\* C9 (unique name resolution): get_unique_name returns the base name when
\* the directory has no entry of that name, whether file or folder, and
\* otherwise "<base> (k)" for the least k >= 1 whose name is not an entry;
\* the name returned is never an entry, and the call leaves the filesystem
\* as it was.
C9_UniqueName ==
  /\ [](pc = "returned" =>
          LET Taken(n) == \E e \in fs : e.path = Append(directory, n)
              Suffixed(k) == base_name \o " (" \o ToString(k) \o ")"
          IN  /\ ~Taken(name)
              /\ ~Taken(base_name) => name = base_name
              /\ Taken(base_name) =>
                   \E k \in 1 .. Cardinality(fs) :
                     /\ name = Suffixed(k)
                     /\ \A j \in 1 .. k - 1 : Taken(Suffixed(j)))
  /\ [][fs' = fs]_vars

\* The call had to pass the base name and its first two suffixed names, one
\* of them a folder and one a file.
C9_Witness ==
  /\ pc = "returned"
  /\ base_name = "a"
  /\ name = "a (3)"
  /\ Entry(Append(directory, "a (1)"), "dir") \in fs
  /\ Entry(Append(directory, "a (2)"), "file") \in fs

\* C10 (termination under non-persistent failures): with MAX_DEPTH >= 2 and
\* a non-empty pool, if a loop that keeps attempting always has an attempt
\* succeed in the end, a planned run reaches the summary; the file loop is
\* entered only with all folders created and the summary printed only with
\* all files created; a counter moves only in an iteration whose creation
\* did not raise, so a run whose creations always fail never completes.
C10_Terminates ==
  /\ (SF_vars(FolderCreated) /\ SF_vars(FileCreated))
       => ((MAX_DEPTH >= 2 /\ NAMES_LIST # <<>> /\ pc = "plan")
             ~> (pc = "done" /\ SummaryLine \in out))
  /\ [](pc \in {"files", "done"} => created_folders = num_folders)
  /\ [](pc = "done" => (created_files = num_files /\ created_folders + created_files = TOTAL_ITEMS))
  /\ [][ (created_folders' > created_folders \/ created_files' > created_files)
           => (err' = "" /\ fs' # fs) ]_vars
  /\ [][ pc' = "done" => (pc = "files" /\ SummaryLine \in out') ]_vars

\* A run completed although creations failed in both loops on the way.
C10_Witness ==
  /\ pc = "done"
  /\ MAX_DEPTH >= 2
  /\ created_folders > 0
  /\ created_files > 0
  /\ FailedFolderLine \in out
  /\ FailedFileLine \in out
  /\ SummaryLine \in out

\* The tree and the registry a completed run leaves.
SameTreeAsBefore == fs = prev.fs /\ folder_list = prev.folder_list

\* C4 (determinism): two completed runs with the same seed and the same
\* configuration end with the same paths and the same tree shape: the same
\* folders at the same depths, the same files.
C4_Deterministic ==
  (run = 2 /\ pc = "done" /\ prev.pc = "done") => SameTreeAsBefore

\* Supporting check of the model, no claim of the specification: two
\* completed runs in which no creation failed do end with the same tree.
DeterministicWithoutFailures ==
  (run = 2 /\ pc = "done" /\ prev.pc = "done" /\ out = {SummaryLine}
     /\ prev.out = {SummaryLine})
    => SameTreeAsBefore

\* C5 (idempotent reset): generation always starts from a root that is an
\* empty directory, whatever was there before, and the second of two runs in
\* succession against the same root ends with the tree the first one ended
\* with, nothing else surviving.
C5_IdempotentReset ==
  /\ pc = "plan" => fs = {[path |-> ROOT_FOLDER, kind |-> "dir"]}
  /\ (run = 2 /\ pc = "done") => fs = prev.fs

====
